---- MODULE Spec2Model ----
(***************************************************************************)
(* Truss stress analyzer: the Application Controller (pages/Home.tsx), the *)
(* Canvas gestures that drive it (components/TrussCanvas.tsx), the         *)
(* Coordinate-Input dialog (components/modals/CoordinateInputModal.tsx)    *)
(* and the call into the analysis engine (lib/pdfExport.ts,                *)
(* calculateTrussForces).                                                  *)
(*                                                                         *)
(* React state is modelled by one variable per useState cell.  A handler   *)
(* reads the cells of the render it was created in and its setState calls  *)
(* are applied together, so a handler is one atomic action.                *)
(*                                                                         *)
(* An optional value (T | null) is a sequence of length 0 or 1.            *)
(* A number shown in a form field is an exact rational [n, d].             *)
(***************************************************************************)
EXTENDS Integers, Sequences, FiniteSets, TLC

\* ------------------------------------------------------------------ bounds
\* most nodes in the structure-editing specification
MaxNodes == 2

\* most nodes in the building-only specification
MaxBuildNodes == 3

\* most nodes in the analysis-trigger specification
MaxCalcNodes == 2

\* most nodes of a structure handed to the engine
MaxEngineNodes == 3

\* positions of the nodes handed to the engine: A, B and C of the right
\* triangle
EnginePoints == {<<0, 0>>, <<400, 0>>, <<200, -200>>}

\* internal (pixel) positions a pointer gesture may produce
Points == {<<0, 0>>, <<300, -150>>}

\* numbers a user may type into the X / Y field of the coordinate dialog
FormNumbers == {[n |-> 0, d |-> 1], [n |-> 3, d |-> 1], [n |-> 3, d |-> 2]}

\* texts a user may leave in the Magnitude field
MagnitudeTexts == {"", "abc", "5", "-5"}

\* texts a user may leave in the Angle field
AngleTexts == {"", "abc", "90"}

\* ------------------------------------------------------------ domain model
None == <<>>
Some(v) == <<v>>

\* `node-${n}`
nodeId(n) == <<"node", n>>

\* `member-${n}`
memberId(n) == <<"member", n>>

\* A member holds copies of its endpoint node objects.  Only id, x and y of
\* a copy are ever read (engine, canvas), so the copy keeps those fields.
Snapshot(node) == [id |-> node.id, x |-> node.x, y |-> node.y]

\* The selection cells hold a node or member object of which only the id is
\* ever read (Home.tsx deleteNode, deleteMember), so they keep the id.
Ref(obj) == [id |-> obj.id]

\* the mode buttons of the Control Panel
ModeButtons ==
  {"select", "addNode", "addMember", "delete", "hingedSupport",
   "rollerSupport", "applyLoad"}

MsgNotEnough == "Not enough elements to analyze. Add more nodes and members."
MsgNoLoads == "No loads defined. Click a node in 'Apply Load' mode to add a load."
MsgUnstable == "Truss is unstable. Add more members or supports."

\* the message of the TypeError thrown by the assembly loop of the engine
engineError == "Cannot read properties of undefined"

\* `Calculation error: ${error.message}`
calcErrorMessage(error) == "Calculation error: " \o error

MsgCalcError == calcErrorMessage(engineError)

\* --------------------------------------------------------------- rationals
Rat(n, d) == [n |-> n, d |-> d]

\* v / 100
Div100(v) == Rat(v, 100)

\* -q
Neg(q) == Rat(0 - q.n, q.d)

\* q * 100, for the q whose hundredfold is an integer
Times100(q) == (q.n * 100) \div q.d

VARIABLES
  nodes,                \* Home: nodes
  members,              \* Home: members
  mode,                 \* Home: mode
  selectedNode,         \* Home: selectedNode
  selectedMember,       \* Home: selectedMember
  firstNodeForMember,   \* Home: firstNodeForMember
  analysisResults,      \* Home: analysisResults
  loadSettings,         \* Home: loadSettings
  errorModal,           \* Home: errorModal
  coordinateModalOpen,  \* Home: coordinateModalOpen
  coordinateModalData,  \* Home: coordinateModalData
  coordinates,          \* CoordinateInputModal: coordinates
  dragging,             \* d3 drag gesture in progress: id of the dragged node
  zoomTransform,        \* TrussCanvas: scale k of d3.zoomTransform(svg)
  transform,            \* TrussCanvas: scale k of the transform state
  nodeEnv,              \* server: process.env.NODE_ENV
  response,             \* server: what the route did with the last request
  lastOp                \* history: the Controller operation of the last step

vars ==
  <<nodes, members, mode, selectedNode, selectedMember, firstNodeForMember,
    analysisResults, loadSettings, errorModal, coordinateModalOpen,
    coordinateModalData, coordinates, dragging, zoomTransform, transform,
    nodeEnv, response, lastOp>>

\* the pan/zoom state of the Canvas and the state of the server process
viewVars == <<zoomTransform, transform>>

serverVars == <<nodeEnv, response>>

\* history record: operation, its two id arguments, and a count (engine calls
\* of calculateForces, members at the node of deleteNode, index of the node of
\* openEditNodeModal); for deleteNode b is the id of the last node of the list
Op(name, a, b, k) == [op |-> name, a |-> a, b |-> b, k |-> k]

\* the Canvas starts with the identity transform (scale 1) in both places
InitView ==
  /\ zoomTransform = [a |-> 1, b |-> 0, d |-> 1]
  /\ transform = [a |-> 1, b |-> 0, d |-> 1]

\* the server process in production mode, before the first request
InitServer ==
  /\ nodeEnv = <<"production">>
  /\ response = <<>>

Init ==
  /\ nodes = <<>>
  /\ members = <<>>
  /\ mode = "select"
  /\ selectedNode = None
  /\ selectedMember = None
  /\ firstNodeForMember = None
  /\ analysisResults = None
  /\ loadSettings = [magnitude |-> 10, angle |-> 270]
  /\ errorModal = [isOpen |-> FALSE, message |-> ""]
  /\ coordinateModalOpen = FALSE
  /\ coordinateModalData =
       [isEditing |-> FALSE, nodeId |-> None,
        initialValues |-> [x |-> Rat(0, 1), y |-> Rat(0, 1)]]
  /\ coordinates = [x |-> Rat(0, 1), y |-> Rat(0, 1)]
  /\ dragging = None
  /\ InitView
  /\ InitServer
  /\ lastOp = Op("init", None, None, 0)

\* ------------------------------------------------- Controller (Home.tsx)
\* positions i of seq whose element satisfies Test
Indices(seq, Test(_)) == {i \in DOMAIN seq : Test(seq[i])}

\* the ids of the nodes of a node list
NodeIds(ns) == {ns[i].id : i \in DOMAIN ns}

\* reaction components: 2 per hinged node, 1 per roller node
RECURSIVE reactionCount(_)
reactionCount(ns) ==
  IF ns = <<>> THEN 0
  ELSE (IF Head(ns).support = "hinged" THEN 2
        ELSE IF Head(ns).support = "roller" THEN 1 ELSE 0)
       + reactionCount(Tail(ns))

\* mutant: the classification is made without a look at the supports
calculateStats_NoSupportTest(ns, ms) ==
  LET nodeCount == Len(ns)
      memberCount == Len(ms)
      rCount == reactionCount(ns)
      mrSum == memberCount + rCount
      twoJValue == 2 * nodeCount
  IN [nodeCount |-> nodeCount, memberCount |-> memberCount,
      reactionCount |-> rCount, mrSum |-> mrSum, twoJValue |-> twoJValue,
      determinacy |->
        IF nodeCount > 0 /\ memberCount > 0
        THEN IF mrSum = twoJValue THEN "Determinate"
             ELSE IF mrSum > twoJValue THEN "Indeterminate"
             ELSE "Unstable"
        ELSE "Not Calculated"]

calculateStats(ns, ms) ==
  LET nodeCount == Len(ns)
      memberCount == Len(ms)
      rCount == reactionCount(ns)
      mrSum == memberCount + rCount
      twoJValue == 2 * nodeCount
  IN [nodeCount |-> nodeCount, memberCount |-> memberCount,
      reactionCount |-> rCount, mrSum |-> mrSum, twoJValue |-> twoJValue,
      determinacy |->
        IF nodeCount > 0 /\ memberCount > 0 /\ rCount > 0
        THEN IF mrSum = twoJValue THEN "Determinate"
             ELSE IF mrSum > twoJValue THEN "Indeterminate"
             ELSE "Unstable"
        ELSE "Not Calculated"]

\* mutant: the id is taken from the length without the + 1
addNode_FromLength(x, y) ==
  nodes' = Append(nodes,
             [id |-> <<"node", Len(nodes)>>, x |-> x, y |-> y,
              support |-> "null", load |-> <<>>])

addNode(x, y) ==
  nodes' = Append(nodes,
             [id |-> nodeId(Len(nodes) + 1), x |-> x, y |-> y,
              support |-> "null", load |-> None])

\* mutant: the existence test forgets the reversed pair
memberExists_NoReverse(node1, node2) ==
  \E i \in DOMAIN members :
     members[i].node1.id = node1.id /\ members[i].node2.id = node2.id

\* node1, node2: the node objects handed over by the caller
memberExists(node1, node2) ==
  \E i \in DOMAIN members :
     \/ members[i].node1.id = node1.id /\ members[i].node2.id = node2.id
     \/ members[i].node1.id = node2.id /\ members[i].node2.id = node1.id

\* mutant: the distinctness test is missing
addMember_NoSelfCheck(node1, node2) ==
  members' =
    IF ~(\E i \in DOMAIN members :
           \/ members[i].node1.id = node1.id /\ members[i].node2.id = node2.id
           \/ members[i].node1.id = node2.id /\ members[i].node2.id = node1.id)
    THEN Append(members,
           [id |-> <<"member", Len(members) + 1>>,
            node1 |-> [id |-> node1.id, x |-> node1.x, y |-> node1.y],
            node2 |-> [id |-> node2.id, x |-> node2.x, y |-> node2.y]])
    ELSE members

addMember(node1, node2) ==
  members' =
    IF ~memberExists(node1, node2) /\ node1.id # node2.id
    THEN Append(members,
           [id |-> memberId(Len(members) + 1),
            node1 |-> Snapshot(node1), node2 |-> Snapshot(node2)])
    ELSE members

updateNodePosition(nId, x, y) ==
  LET updatedNodes ==
        [i \in DOMAIN nodes |->
           IF nodes[i].id = nId THEN [nodes[i] EXCEPT !.x = x, !.y = y]
           ELSE nodes[i]]
      found == Indices(updatedNodes, LAMBDA n : n.id = nId)
  IN /\ nodes' = updatedNodes
     /\ IF found = {} THEN members' = members
        ELSE LET first == CHOOSE i \in found : \A j \in found : i <= j
                 updatedNode == Snapshot(updatedNodes[first])
             IN members' =
                  [i \in DOMAIN members |->
                     IF members[i].node1.id = nId
                     THEN [members[i] EXCEPT !.node1 = updatedNode]
                     ELSE IF members[i].node2.id = nId
                     THEN [members[i] EXCEPT !.node2 = updatedNode]
                     ELSE members[i]]

\* cos and sin of the angles the settings take in this model (degrees)
Cos(a) == CASE a = 0 -> 1 [] a = 90 -> 0 [] a = 180 -> 0 - 1 [] a = 270 -> 0

Sin(a) == CASE a = 0 -> 0 [] a = 90 -> 1 [] a = 180 -> 0 [] a = 270 -> 0 - 1

applyLoadToNode(nId) ==
  nodes' =
    [i \in DOMAIN nodes |->
       IF nodes[i].id = nId
       THEN IF nodes[i].load # None
            THEN [nodes[i] EXCEPT !.load = None]
            ELSE [nodes[i] EXCEPT !.load =
                    Some([x |-> loadSettings.magnitude * Cos(loadSettings.angle),
                          y |-> 0 - loadSettings.magnitude
                                      * Sin(loadSettings.angle)])]
       ELSE nodes[i]]

setSupportToNode(nId, supportType) ==
  nodes' =
    [i \in DOMAIN nodes |->
       IF nodes[i].id = nId THEN [nodes[i] EXCEPT !.support = supportType]
       ELSE nodes[i]]

\* mutant: the cascade looks at the first endpoint only
deleteNode_Node1Only(nId) ==
  /\ members' = SelectSeq(members, LAMBDA m : m.node1.id # nId)
  /\ nodes' = SelectSeq(nodes, LAMBDA n : n.id # nId)
  /\ selectedNode' =
       IF selectedNode # None /\ selectedNode[1].id = nId THEN None
       ELSE selectedNode

deleteNode(nId) ==
  /\ members' = SelectSeq(members,
                  LAMBDA m : m.node1.id # nId /\ m.node2.id # nId)
  /\ nodes' = SelectSeq(nodes, LAMBDA n : n.id # nId)
  /\ selectedNode' =
       IF selectedNode # None /\ selectedNode[1].id = nId THEN None
       ELSE selectedNode

deleteMember(mId) ==
  /\ members' = SelectSeq(members, LAMBDA m : m.id # mId)
  /\ selectedMember' =
       IF selectedMember # None /\ selectedMember[1].id = mId THEN None
       ELSE selectedMember

\* mutant: the stored analysis results outlive the reset
clearAll_KeepsResults ==
  /\ nodes' = <<>>
  /\ members' = <<>>
  /\ selectedNode' = <<>>
  /\ selectedMember' = <<>>
  /\ firstNodeForMember' = <<>>
  /\ analysisResults' = analysisResults

clearAll ==
  /\ nodes' = <<>>
  /\ members' = <<>>
  /\ selectedNode' = None
  /\ selectedMember' = None
  /\ firstNodeForMember' = None
  /\ analysisResults' = None

showError(message) == errorModal' = [isOpen |-> TRUE, message |-> message]

\* ------------------------------------------------ numbers of the engine
\* A number of the engine is (a + b * sqrt(2)) / d with integers a, b and
\* d > 0 in lowest terms: the field that holds every length, cosine and sine
\* of the positions used here.  Rounding is not modelled.  The values that
\* are not finite have d = 0: a = 1 for Infinity, a = -1 for -Infinity and
\* a = 0 for NaN.
Abs(n) == IF n < 0 THEN 0 - n ELSE n

RECURSIVE GCD(_, _)
GCD(m, n) == IF n = 0 THEN Abs(m) ELSE GCD(n, m % Abs(n))

Num(a, b, d) ==
  LET g == GCD(GCD(a, b), d)
  IN IF g = 0 THEN [a |-> 0, b |-> 0, d |-> 1]
     ELSE IF d < 0 THEN [a |-> (0 - a) \div g, b |-> (0 - b) \div g,
                         d |-> (0 - d) \div g]
     ELSE [a |-> a \div g, b |-> b \div g, d |-> d \div g]

FromInt(n) == [a |-> n, b |-> 0, d |-> 1]

NotANumber == [a |-> 0, b |-> 0, d |-> 0]

Infinity == [a |-> 1, b |-> 0, d |-> 0]

MinusInfinity == [a |-> 0 - 1, b |-> 0, d |-> 0]

IsFinite(x) == x.d # 0

IsNaN(x) == x.d = 0 /\ x.a = 0

IsZero(x) == x.d # 0 /\ x.a = 0 /\ x.b = 0

\* the sign of a number: a + b * sqrt(2) against 0
Sign(x) ==
  IF x.d = 0 THEN x.a
  ELSE IF x.a >= 0 /\ x.b >= 0 THEN (IF x.a = 0 /\ x.b = 0 THEN 0 ELSE 1)
  ELSE IF x.a <= 0 /\ x.b <= 0 THEN 0 - 1
  ELSE LET g == GCD(x.a, x.b)
           a == x.a \div g
           b == x.b \div g
       IN IF a > 0 THEN (IF a * a > 2 * b * b THEN 1 ELSE 0 - 1)
          ELSE (IF 2 * b * b > a * a THEN 1 ELSE 0 - 1)

\* -x
NNeg(x) == [a |-> 0 - x.a, b |-> 0 - x.b, d |-> x.d]

\* x + y
NAdd(x, y) ==
  IF IsNaN(x) \/ IsNaN(y) THEN NotANumber
  ELSE IF ~IsFinite(x) THEN (IF ~IsFinite(y) /\ y.a # x.a THEN NotANumber ELSE x)
  ELSE IF ~IsFinite(y) THEN y
  ELSE LET g == GCD(x.d, y.d)
           mx == y.d \div g
           my == x.d \div g
       IN Num(x.a * mx + y.a * my, x.b * mx + y.b * my, x.d * mx)

\* x - y
NSub(x, y) == NAdd(x, NNeg(y))

\* x * y; common factors are cancelled before the products are formed
NMul(x, y) ==
  IF IsNaN(x) \/ IsNaN(y) THEN NotANumber
  ELSE IF ~IsFinite(x) \/ ~IsFinite(y)
  THEN (IF Sign(x) * Sign(y) = 0 THEN NotANumber
        ELSE IF Sign(x) * Sign(y) > 0 THEN Infinity ELSE MinusInfinity)
  ELSE IF IsZero(x) \/ IsZero(y) THEN FromInt(0)
  ELSE LET cx == GCD(x.a, x.b)
           cy == GCD(y.a, y.b)
           gxy == GCD(cx, y.d)
           gyx == GCD(cy, x.d)
           c == (cx \div gxy) * (cy \div gyx)
           d == (x.d \div gyx) * (y.d \div gxy)
           xa == x.a \div cx
           xb == x.b \div cx
           ya == y.a \div cy
           yb == y.b \div cy
       IN Num(c * (xa * ya + 2 * xb * yb), c * (xa * yb + xb * ya), d)

\* 1 / y for a finite y other than 0
NInv(y) ==
  LET cy == GCD(y.a, y.b)
      ya == y.a \div cy
      yb == y.b \div cy
      nrm == ya * ya - 2 * yb * yb
      g == GCD(y.d, cy * nrm)
  IN Num((y.d \div g) * ya, (y.d \div g) * (0 - yb), (cy * nrm) \div g)

\* x / y; the zero of this model is +0
NDiv(x, y) ==
  IF IsNaN(x) \/ IsNaN(y) THEN NotANumber
  ELSE IF ~IsFinite(y)
  THEN (IF ~IsFinite(x) THEN NotANumber ELSE FromInt(0))
  ELSE IF IsZero(y)
  THEN (IF Sign(x) = 0 THEN NotANumber
        ELSE IF Sign(x) > 0 THEN Infinity ELSE MinusInfinity)
  ELSE NMul(x, NInv(y))

\* x === y of two numbers: NaN equals nothing
NEq(x, y) == ~IsNaN(x) /\ ~IsNaN(y) /\ x = y

\* x < y of two numbers
NLess(x, y) ==
  /\ ~IsNaN(x) /\ ~IsNaN(y) /\ x # y
  /\ IF IsFinite(x) /\ IsFinite(y) THEN Sign(NSub(x, y)) < 0
     ELSE IF ~IsFinite(x) THEN x = MinusInfinity
     ELSE y = Infinity

\* Math.abs(x)
NAbs(x) == IF Sign(x) < 0 THEN NNeg(x) ELSE x

\* the largest r in lo .. hi with r * r <= n
RECURSIVE floorSqrt(_, _, _)
floorSqrt(n, lo, hi) ==
  IF lo = hi THEN lo
  ELSE LET mid == (lo + hi + 1) \div 2
       IN IF mid * mid <= n THEN floorSqrt(n, mid, hi)
          ELSE floorSqrt(n, lo, mid - 1)

\* Math.sqrt(n) for the integers n >= 0 whose root is r or r * sqrt(2)
NSqrt(n) ==
  LET hi == IF n < 46340 THEN n ELSE 46340
      r == floorSqrt(n, 0, hi)
  IN IF r * r = n THEN FromInt(r)
     ELSE [a |-> 0, b |-> floorSqrt(n \div 2, 0, hi), d |-> 1]

\* ------------------------------------ Analysis Engine (calculateTrussForces)
\* mutant: the engine never throws
engineFaults_Never(ns, ms) == FALSE

\* findIndex yields -1 for an endpoint whose id is in no node; K[-2] is then
\* undefined and the assembly loop throws a TypeError
engineFaults(ns, ms) ==
  \E i \in DOMAIN ms :
     ms[i].node1.id \notin NodeIds(ns) \/ ms[i].node2.id \notin NodeIds(ns)

\* the free DOF indices pushed for the nodes from position i on; the node at
\* position i of the sequence has the 0-based index i - 1
RECURSIVE freeDOFFrom(_, _)
freeDOFFrom(ns, i) ==
  IF i > Len(ns) THEN <<>>
  ELSE (IF ns[i].support = "hinged" THEN <<>>
        ELSE IF ns[i].support = "roller" THEN <<(i - 1) * 2>>
        ELSE <<(i - 1) * 2, (i - 1) * 2 + 1>>)
       \o freeDOFFrom(ns, i + 1)

\* the fixed DOF indices pushed for the nodes from position i on
RECURSIVE fixedDOFFrom(_, _)
fixedDOFFrom(ns, i) ==
  IF i > Len(ns) THEN <<>>
  ELSE (IF ns[i].support = "hinged" THEN <<(i - 1) * 2, (i - 1) * 2 + 1>>
        ELSE IF ns[i].support = "roller" THEN <<(i - 1) * 2 + 1>>
        ELSE <<>>)
       \o fixedDOFFrom(ns, i + 1)

freeDOF(ns) == freeDOFFrom(ns, 1)

\* mutant: a roller fixes nothing
fixedDOF_HingedOnly(ns) ==
  SelectSeq(fixedDOFFrom(ns, 1),
            LAMBDA dof : ns[(dof \div 2) + 1].support = "hinged")

fixedDOF(ns) == fixedDOFFrom(ns, 1)

\* nodes.findIndex(n => n.id === id): 0-based, -1 when no node has the id
findIndex(ns, id) ==
  LET found == {i \in DOMAIN ns : ns[i].id = id}
  IN IF found = {} THEN 0 - 1
     ELSE (CHOOSE i \in found : \A j \in found : i <= j) - 1

calculateLength(node1, node2) ==
  LET dx == node2.x - node1.x
      dy == node2.y - node1.y
  IN NSqrt(dx * dx + dy * dy)

\* Math.cos(calculateAngle(node1, node2)); atan2(0, 0) is 0
cosAngle(node1, node2) ==
  LET length == calculateLength(node1, node2)
  IN IF IsZero(length) THEN FromInt(1)
     ELSE NDiv(FromInt(node2.x - node1.x), length)

\* Math.sin(calculateAngle(node1, node2))
sinAngle(node1, node2) ==
  LET length == calculateLength(node1, node2)
  IN IF IsZero(length) THEN FromInt(0)
     ELSE NDiv(FromInt(node2.y - node1.y), length)

\* mutant: the lower left block of memberK is not negated
memberK_Lopsided(member) ==
  LET k == NDiv(FromInt(200000 * 1000),
                calculateLength(member.node1, member.node2))
      c == cosAngle(member.node1, member.node2)
      s == sinAngle(member.node1, member.node2)
      kxx == NMul(NMul(k, c), c)
      kxy == NMul(NMul(k, c), s)
      kyy == NMul(NMul(k, s), s)
      block(i, j) == IF i = 0 /\ j = 0 THEN kxx
                     ELSE IF i = 1 /\ j = 1 THEN kyy ELSE kxy
  IN [ij \in (0 .. 3) \X (0 .. 3) |->
        IF ij[1] \div 2 = ij[2] \div 2 \/ ij[1] \div 2 = 1
        THEN block(ij[1] % 2, ij[2] % 2)
        ELSE NNeg(block(ij[1] % 2, ij[2] % 2))]

\* the 4 x 4 matrix of memberK from the stiffness k, the cosine c and the
\* sine s of the member, rows and columns 0 .. 3
localStiffness(k, c, s) ==
  LET block(i, j) == IF i = 0 /\ j = 0 THEN NMul(NMul(k, c), c)
                     ELSE IF i = 1 /\ j = 1 THEN NMul(NMul(k, s), s)
                     ELSE NMul(NMul(k, c), s)
  IN [ij \in (0 .. 3) \X (0 .. 3) |->
        IF ij[1] \div 2 = ij[2] \div 2 THEN block(ij[1] % 2, ij[2] % 2)
        ELSE NNeg(block(ij[1] % 2, ij[2] % 2))]

\* memberK of a member
memberK(member) ==
  localStiffness(NDiv(FromInt(200000 * 1000),
                      calculateLength(member.node1, member.node2)),
                 cosAngle(member.node1, member.node2),
                 sinAngle(member.node1, member.node2))

\* the global DOF indices of the four rows of memberK
memberIndices(ns, member) ==
  LET node1Index == findIndex(ns, member.node1.id)
      node2Index == findIndex(ns, member.node2.id)
  IN <<node1Index * 2, node1Index * 2 + 1, node2Index * 2, node2Index * 2 + 1>>

\* an array with its entries computed and stored
stored(array) == array @@ <<>>

\* the statements of the code run in order: first is computed before rest
inOrder(first, rest) == IF first = first THEN rest ELSE rest

\* entry rc of K after the assembly loop has run over the members from k on,
\* with sum the entry before them, from the indices and the memberK of every
\* member, for members whose two endpoints are found at different indices
RECURSIVE stiffnessEntry(_, _, _, _, _)
stiffnessEntry(indices, mK, rc, k, sum) ==
  IF k \notin DOMAIN indices THEN sum
  ELSE LET at(q) == CHOOSE i \in 0 .. 3 : indices[k][i + 1] = q
           next == IF /\ \E i \in 0 .. 3 : indices[k][i + 1] = rc[1]
                      /\ \E j \in 0 .. 3 : indices[k][j + 1] = rc[2]
                   THEN NAdd(sum, mK[k][<<at(rc[1]), at(rc[2])>>])
                   ELSE sum
       IN inOrder(next, stiffnessEntry(indices, mK, rc, k + 1, next))

\* K of size numDOF after the assembly loop, from the indices and the memberK
\* of every member
assembleStiffness(numDOF, indices, mK) ==
  inOrder(<<indices, mK>>,
          [rc \in (0 .. (numDOF - 1)) \X (0 .. (numDOF - 1)) |->
             stiffnessEntry(indices, mK, rc, 1, FromInt(0))])

\* the global stiffness matrix K
globalStiffness(ns, ms) ==
  stored(assembleStiffness(
           2 * Len(ns),
           stored([k \in DOMAIN ms |-> memberIndices(ns, ms[k])]),
           stored([k \in DOMAIN ms |-> stored(memberK(ms[k]))])))

\* the force vector F
forceVector(ns) ==
  [q \in 0 .. (2 * Len(ns) - 1) |->
     LET node == ns[(q \div 2) + 1]
     IN IF node.load = None THEN FromInt(0)
        ELSE IF q % 2 = 0 THEN FromInt(node.load[1].x)
        ELSE FromInt(node.load[1].y)]

\* reducedK and reducedF, rows and columns 1 .. n for the n free DOFs
reducedSystem(ns, ms) ==
  LET free == freeDOF(ns)
      n == Len(free)
      K == globalStiffness(ns, ms)
      F == forceVector(ns)
  IN [K |-> stored([ij \in (1 .. n) \X (1 .. n) |->
                      K[<<free[ij[1]], free[ij[2]]>>]]),
      F |-> stored([i \in 1 .. n |-> F[free[i]]])]

\* one pass of the forward elimination: pivot row i taken off every row j > i
eliminateBelow(sys, i) ==
  LET factor(j) == NDiv(sys.K[<<j, i>>], sys.K[<<i, i>>])
  IN [K |-> [jk \in DOMAIN sys.K |->
               IF jk[1] > i /\ jk[2] >= i
               THEN NSub(sys.K[jk], NMul(factor(jk[1]), sys.K[<<i, jk[2]>>]))
               ELSE sys.K[jk]],
      F |-> [j \in DOMAIN sys.F |->
               IF j > i THEN NSub(sys.F[j], NMul(factor(j), sys.F[i]))
               ELSE sys.F[j]]]

\* forward elimination from pivot row i on, without pivoting
RECURSIVE forwardElimination(_, _)
forwardElimination(sys, i) ==
  IF i > Cardinality(DOMAIN sys.F) THEN sys
  ELSE LET next == eliminateBelow(sys, i)
       IN forwardElimination([K |-> stored(next.K), F |-> stored(next.F)],
                             i + 1)

\* mutant: the backward substitution forgets the columns right of the pivot
rowSum_Nothing(sys, d, i, j, sum) == [a |-> 0, b |-> 0, d |-> 1]

\* sum after the loop over the columns from j on has added reducedK[i][j] *
\* d[j] to it
RECURSIVE rowSum(_, _, _, _, _)
rowSum(sys, d, i, j, sum) ==
  IF j > Cardinality(DOMAIN sys.F) THEN sum
  ELSE LET next == NAdd(sum, NMul(sys.K[<<i, j>>], d[j]))
       IN inOrder(next, rowSum(sys, d, i, j + 1, next))

\* backward substitution from row i up
RECURSIVE backSubstitution(_, _, _)
backSubstitution(sys, d, i) ==
  IF i \notin DOMAIN d THEN d
  ELSE backSubstitution(
         sys,
         stored([d EXCEPT ![i] =
                   NDiv(NSub(sys.F[i], rowSum(sys, d, i, i + 1, FromInt(0))),
                        sys.K[<<i, i>>])]),
         i - 1)

\* the displacements d of the free DOFs
displacements(ns, ms) ==
  LET n == Len(freeDOF(ns))
  IN backSubstitution(forwardElimination(reducedSystem(ns, ms), 1),
                      [i \in 1 .. n |-> FromInt(0)], n)

\* sum after the positions of free from p on have added K[dof][free[p]] *
\* d[p] to it
RECURSIVE stiffnessTimesDisplacement(_, _, _, _, _, _)
stiffnessTimesDisplacement(K, free, d, dof, p, sum) ==
  IF p > Len(free) THEN sum
  ELSE LET next == NAdd(sum, NMul(K[<<dof, free[p]>>], d[p]))
       IN inOrder(next, stiffnessTimesDisplacement(K, free, d, dof, p + 1, next))

\* the reactions from K, F and d: for every supported node, by id, the
\* reaction at its fixed DOFs and 0 at its free ones; the last node with an
\* id sets the entry
supportReactions(ns, K, F, d) ==
  LET free == freeDOF(ns)
      fixed == {fixedDOF(ns)[p] : p \in DOMAIN fixedDOF(ns)}
      reaction(dof) ==
        IF dof \in fixed
        THEN NSub(F[dof],
                  stiffnessTimesDisplacement(K, free, d, dof, 1, FromInt(0)))
        ELSE FromInt(0)
      supported == {i \in DOMAIN ns : ns[i].support # "null"}
      last(id) == CHOOSE i \in supported :
                    ns[i].id = id /\ \A j \in supported : ns[j].id = id => j <= i
  IN inOrder(<<K, d>>,
             [id \in {ns[i].id : i \in supported} |->
                [x |-> reaction((last(id) - 1) * 2),
                 y |-> reaction((last(id) - 1) * 2 + 1)]])

\* reactionForces of the structure
reactionForces(ns, ms) ==
  supportReactions(ns, globalStiffness(ns, ms), forceVector(ns),
                   stored(displacements(ns, ms)))

\* freeDOF.includes(dof) ? d[freeDOF.indexOf(dof)] : 0
displacementAt(free, d, dof) ==
  IF \E p \in DOMAIN free : free[p] = dof
  THEN d[CHOOSE p \in DOMAIN free : free[p] = dof]
  ELSE FromInt(0)

\* the axial force of one member
memberForce(ns, d, member) ==
  LET node1Index == findIndex(ns, member.node1.id)
      node2Index == findIndex(ns, member.node2.id)
      length == calculateLength(member.node1, member.node2)
      free == freeDOF(ns)
      dx1 == displacementAt(free, d, node1Index * 2)
      dy1 == displacementAt(free, d, node1Index * 2 + 1)
      dx2 == displacementAt(free, d, node2Index * 2)
      dy2 == displacementAt(free, d, node2Index * 2 + 1)
  IN inOrder(d,
       NMul(NDiv(FromInt(200000 * 1000), length),
            NAdd(NMul(NSub(dx2, dx1), cosAngle(member.node1, member.node2)),
                 NMul(NSub(dy2, dy1), sinAngle(member.node1, member.node2)))))

\* memberForces: for every member, by id, its axial force; the last member
\* with an id sets the entry
memberForces(ns, ms) ==
  LET last(id) == CHOOSE i \in DOMAIN ms :
                    ms[i].id = id /\ \A j \in DOMAIN ms : ms[j].id = id => j <= i
      d == stored(displacements(ns, ms))
  IN [id \in {ms[i].id : i \in DOMAIN ms} |-> memberForce(ns, d, ms[last(id)])]

\* the two result maps
calculateTrussForces(ns, ms) ==
  [memberForces |-> memberForces(ns, ms),
   reactionForces |-> reactionForces(ns, ms),
   isStable |-> TRUE]

\* mutant: both counts must be short for the first pre-check to fail
insufficient_And(ns, ms) == Len(ns) < 2 /\ Len(ms) < 1

\* mutant: the load pre-check is skipped
hasLoad_Ignored(ns) == TRUE

\* mutant: a roller is counted as two reaction components
unstable_RollerAsTwo(ns, ms) ==
  Len(ms) + 2 * Cardinality(Indices(ns, LAMBDA n : n.support # "null"))
    < 2 * Len(ns)

\* mutant: the stability pre-check is skipped
unstable_Never(ns, ms) == FALSE

\* first pre-check: the structure is too small
insufficient(ns, ms) == Len(ns) < 2 \/ Len(ms) < 1

\* second pre-check: some node carries a load
hasLoad(ns) == \E i \in DOMAIN ns : ns[i].load # None

\* third pre-check: M + R < 2J
unstable(ns, ms) ==
  LET stats == calculateStats(ns, ms) IN stats.mrSum < stats.twoJValue

\* mutant: a failed load pre-check drops the stored results
calculateForces_DropsResults ==
  IF insufficient(nodes, members)
  THEN /\ showError(MsgNotEnough)
       /\ lastOp' = Op("calculateForces", None, None, 0)
       /\ UNCHANGED analysisResults
  ELSE IF ~hasLoad(nodes)
  THEN /\ showError(MsgNoLoads)
       /\ lastOp' = Op("calculateForces", None, None, 0)
       /\ analysisResults' = <<>>
  ELSE IF unstable(nodes, members)
  THEN /\ showError(MsgUnstable)
       /\ lastOp' = Op("calculateForces", None, None, 0)
       /\ UNCHANGED analysisResults
  ELSE /\ lastOp' = Op("calculateForces", None, None, 1)
       /\ IF engineFaults(nodes, members)
          THEN showError(MsgCalcError) /\ UNCHANGED analysisResults
          ELSE /\ analysisResults' = Some(calculateTrussForces(nodes, members))
               /\ UNCHANGED errorModal

\* lastOp.k counts the calls of the engine made by this invocation
calculateForces ==
  IF insufficient(nodes, members)
  THEN /\ showError(MsgNotEnough)
       /\ lastOp' = Op("calculateForces", None, None, 0)
       /\ UNCHANGED analysisResults
  ELSE IF ~hasLoad(nodes)
  THEN /\ showError(MsgNoLoads)
       /\ lastOp' = Op("calculateForces", None, None, 0)
       /\ UNCHANGED analysisResults
  ELSE IF unstable(nodes, members)
  THEN /\ showError(MsgUnstable)
       /\ lastOp' = Op("calculateForces", None, None, 0)
       /\ UNCHANGED analysisResults
  ELSE /\ lastOp' = Op("calculateForces", None, None, 1)
       /\ IF engineFaults(nodes, members)
          THEN showError(MsgCalcError) /\ UNCHANGED analysisResults
          ELSE /\ analysisResults' = Some(calculateTrussForces(nodes, members))
               /\ UNCHANGED errorModal

openAddNodeModal ==
  /\ coordinateModalData' =
       [isEditing |-> FALSE, nodeId |-> None,
        initialValues |-> [x |-> Rat(0, 1), y |-> Rat(0, 1)]]
  /\ coordinateModalOpen' = TRUE

openEditNodeModal(node) ==
  /\ coordinateModalData' =
       [isEditing |-> TRUE, nodeId |-> Some(node.id),
        initialValues |-> [x |-> Div100(node.x), y |-> Div100(0 - node.y)]]
  /\ coordinateModalOpen' = TRUE

\* x, y: the numbers handed over by the dialog
handleCoordinateModalSubmit(x, y) ==
  LET scaledX == Times100(x)
      scaledY == Times100(y)
  IN /\ IF coordinateModalData.isEditing /\ coordinateModalData.nodeId # None
        THEN updateNodePosition(coordinateModalData.nodeId[1], scaledX, scaledY)
        ELSE addNode(scaledX, scaledY) /\ UNCHANGED members
     /\ coordinateModalOpen' = FALSE

\* ------------------------------------------------ Control Panel buttons
uiVars == <<mode, loadSettings, errorModal, dragging>>

dialogVars == <<coordinateModalOpen, coordinateModalData, coordinates>>

selectionVars == <<selectedNode, selectedMember, firstNodeForMember>>

\* The dialogs are modal and a drag gesture captures the pointer: the panel
\* and the canvas take a new gesture only when no dialog is open and no
\* drag is in progress.
Idle == dragging = None /\ ~errorModal.isOpen /\ ~coordinateModalOpen

\* a mode button: setMode(m)
SetMode(m) ==
  /\ Idle
  /\ mode' = m
  /\ lastOp' = Op("setMode", None, None, 0)
  /\ UNCHANGED <<nodes, members, selectionVars, analysisResults, loadSettings,
                 errorModal, dialogVars, dragging>>
  /\ UNCHANGED <<viewVars, serverVars>>

\* the Calculate Forces button
Calculate ==
  /\ Idle
  /\ calculateForces
  /\ UNCHANGED <<nodes, members, selectionVars, mode, loadSettings,
                 dialogVars, dragging>>
  /\ UNCHANGED <<viewVars, serverVars>>

\* the Clear All button; lastOp.k counts the cells that held something
ClearAll ==
  /\ Idle
  /\ clearAll
  /\ lastOp' = Op("clearAll", None, None,
                  Cardinality({c \in {<<1, nodes>>, <<2, members>>,
                                      <<3, selectedNode>>, <<4, selectedMember>>,
                                      <<5, firstNodeForMember>>,
                                      <<6, analysisResults>>} : c[2] # <<>>}))
  /\ UNCHANGED <<uiVars, dialogVars>>
  /\ UNCHANGED <<viewVars, serverVars>>

\* ErrorModal onClose
CloseError ==
  /\ errorModal.isOpen
  /\ errorModal' = [isOpen |-> FALSE, message |-> ""]
  /\ lastOp' = Op("closeError", None, None, 0)
  /\ UNCHANGED <<nodes, members, selectionVars, analysisResults, mode,
                 loadSettings, dialogVars, dragging>>
  /\ UNCHANGED <<viewVars, serverVars>>

\* parseFloat of the texts above; NaN is the absent number
NaN == <<>>

parseFloat(text) ==
  CASE text = "5" -> <<5>>
    [] text = "-5" -> <<0 - 5>>
    [] text = "90" -> <<90>>
    [] OTHER -> NaN

isNaN(val) == val = NaN

\* the Magnitude field: onChange with e.target.value = text
SetMagnitude(text) ==
  LET val == IF text # "" THEN parseFloat(text) ELSE <<0>>
  IN /\ Idle
     /\ loadSettings' =
          [loadSettings EXCEPT !.magnitude = IF isNaN(val) THEN 0 ELSE val[1]]
     /\ lastOp' = Op("setMagnitude", None, None, 0)
     /\ UNCHANGED <<nodes, members, selectionVars, analysisResults, mode,
                    errorModal, dialogVars, dragging>>
     /\ UNCHANGED <<viewVars, serverVars>>

\* the Angle field: onChange with e.target.value = text
SetAngle(text) ==
  LET val == IF text # "" THEN parseFloat(text) ELSE <<0>>
  IN /\ Idle
     /\ loadSettings' =
          [loadSettings EXCEPT !.angle = IF isNaN(val) THEN 0 ELSE val[1]]
     /\ lastOp' = Op("setAngle", None, None, 0)
     /\ UNCHANGED <<nodes, members, selectionVars, analysisResults, mode,
                    errorModal, dialogVars, dragging>>
     /\ UNCHANGED <<viewVars, serverVars>>

\* ------------------------------------------------------ Canvas rendering
\* the stroke colour of a drawn member; a force that is 0 or NaN is falsy
memberColor(results, member) ==
  LET present == /\ results # None
                 /\ member.id \in DOMAIN results[1].memberForces
      force == results[1].memberForces[member.id]
  IN IF present /\ ~IsNaN(force) /\ ~IsZero(force)
     THEN IF NLess(NAbs(force), Num(1, 0, 1000)) THEN "#44ff44"
          ELSE IF NLess(FromInt(0), force) THEN "#F44336"
          ELSE "#2196F3"
     ELSE "#424242"

\* ------------------------------------------------------- Canvas gestures
\* click on the empty canvas at point p
SvgClick(p) ==
  /\ Idle
  /\ mode = "addNode"
  /\ addNode(p[1], p[2])
  /\ lastOp' = Op("addNode", None, None, 0)
  /\ UNCHANGED <<members, selectionVars, analysisResults, uiVars, dialogVars>>
  /\ UNCHANGED <<viewVars, serverVars>>

\* mutant: the second click is not compared with the pending node
NodeClick_NoPendingTest(i) ==
  LET node == nodes[i]
  IN /\ Idle
     /\ IF mode = "select"
        THEN /\ selectedNode' = Some(Ref(node))
             /\ selectedMember' = None
             /\ lastOp' = Op("select", None, None, 0)
             /\ UNCHANGED <<nodes, members, firstNodeForMember>>
        ELSE IF mode = "delete"
        THEN /\ deleteNode(node.id)
             /\ lastOp' = Op("deleteNode", node.id, nodes[Len(nodes)].id,
                             Cardinality(Indices(members,
                               LAMBDA m : node.id \in {m.node1.id, m.node2.id})))
             /\ UNCHANGED <<selectedMember, firstNodeForMember>>
        ELSE IF mode = "addMember"
        THEN IF firstNodeForMember = None
             THEN /\ firstNodeForMember' = Some(Snapshot(node))
                  /\ lastOp' = Op("firstNode", node.id, None, 0)
                  /\ UNCHANGED <<nodes, members, selectedNode, selectedMember>>
             ELSE /\ addMember(firstNodeForMember[1], node)
                  /\ firstNodeForMember' = None
                  /\ lastOp' = Op("addMember", firstNodeForMember[1].id,
                                  node.id, 0)
                  /\ UNCHANGED <<nodes, selectedNode, selectedMember>>
        ELSE IF mode \in {"fixedSupport", "hingedSupport", "rollerSupport"}
        THEN /\ setSupportToNode(node.id,
                  IF mode = "fixedSupport" THEN "fixed"
                  ELSE IF mode = "hingedSupport" THEN "hinged" ELSE "roller")
             /\ lastOp' = Op("setSupport", None, None, 0)
             /\ UNCHANGED <<members, selectionVars>>
        ELSE /\ mode = "applyLoad"
             /\ applyLoadToNode(node.id)
             /\ lastOp' = Op("applyLoad", node.id, None, 0)
             /\ UNCHANGED <<members, selectionVars>>
     /\ UNCHANGED <<analysisResults, uiVars, dialogVars>>
     /\ UNCHANGED <<viewVars, serverVars>>

\* click on the i-th drawn node
NodeClick(i) ==
  LET node == nodes[i]
  IN /\ Idle
     /\ IF mode = "select"
        THEN /\ selectedNode' = Some(Ref(node))
             /\ selectedMember' = None
             /\ lastOp' = Op("select", None, None, 0)
             /\ UNCHANGED <<nodes, members, firstNodeForMember>>
        ELSE IF mode = "delete"
        THEN /\ deleteNode(node.id)
             /\ lastOp' = Op("deleteNode", node.id, nodes[Len(nodes)].id,
                             Cardinality(Indices(members,
                               LAMBDA m : node.id \in {m.node1.id, m.node2.id})))
             /\ UNCHANGED <<selectedMember, firstNodeForMember>>
        ELSE IF mode = "addMember"
        THEN IF firstNodeForMember = None
             THEN /\ firstNodeForMember' = Some(Snapshot(node))
                  /\ lastOp' = Op("firstNode", node.id, None, 0)
                  /\ UNCHANGED <<nodes, members, selectedNode, selectedMember>>
             ELSE IF firstNodeForMember[1].id # node.id
             THEN /\ addMember(firstNodeForMember[1], node)
                  /\ firstNodeForMember' = None
                  /\ lastOp' = Op("addMember", firstNodeForMember[1].id,
                                  node.id, 0)
                  /\ UNCHANGED <<nodes, selectedNode, selectedMember>>
             ELSE /\ lastOp' = Op("pendingClick", node.id, None, 0)
                  /\ UNCHANGED <<nodes, members, selectionVars>>
        ELSE IF mode \in {"fixedSupport", "hingedSupport", "rollerSupport"}
        THEN /\ setSupportToNode(node.id,
                  IF mode = "fixedSupport" THEN "fixed"
                  ELSE IF mode = "hingedSupport" THEN "hinged" ELSE "roller")
             /\ lastOp' = Op("setSupport", None, None, 0)
             /\ UNCHANGED <<members, selectionVars>>
        ELSE /\ mode = "applyLoad"
             /\ applyLoadToNode(node.id)
             /\ lastOp' = Op("applyLoad", node.id, None, 0)
             /\ UNCHANGED <<members, selectionVars>>
     /\ UNCHANGED <<analysisResults, uiVars, dialogVars>>
     /\ UNCHANGED <<viewVars, serverVars>>

\* mutant: selecting a member keeps the node selection
MemberClick_KeepsNode(j) ==
  LET member == members[j]
  IN /\ Idle
     /\ IF mode = "select"
        THEN /\ selectedMember' = Some(Ref(member))
             /\ UNCHANGED selectedNode
             /\ lastOp' = Op("select", None, None, 0)
             /\ UNCHANGED members
        ELSE /\ mode = "delete"
             /\ deleteMember(member.id)
             /\ lastOp' = Op("deleteMember", member.id, None, 0)
             /\ UNCHANGED selectedNode
     /\ UNCHANGED <<nodes, firstNodeForMember, analysisResults, uiVars,
                    dialogVars>>
     /\ UNCHANGED <<viewVars, serverVars>>

\* click on the j-th drawn member
MemberClick(j) ==
  LET member == members[j]
  IN /\ Idle
     /\ IF mode = "select"
        THEN /\ selectedMember' = Some(Ref(member))
             /\ selectedNode' = None
             /\ lastOp' = Op("select", None, None, 0)
             /\ UNCHANGED members
        ELSE /\ mode = "delete"
             /\ deleteMember(member.id)
             /\ lastOp' = Op("deleteMember", member.id, None, 0)
             /\ UNCHANGED selectedNode
     /\ UNCHANGED <<nodes, firstNodeForMember, analysisResults, uiVars,
                    dialogVars>>
     /\ UNCHANGED <<viewVars, serverVars>>

\* right click on the i-th drawn node
NodeContextMenu(i) ==
  /\ Idle
  /\ applyLoadToNode(nodes[i].id)
  /\ lastOp' = Op("applyLoad", nodes[i].id, None, 0)
  /\ UNCHANGED <<members, selectionVars, analysisResults, uiVars, dialogVars>>
  /\ UNCHANGED <<viewVars, serverVars>>

\* double click on the i-th drawn node
NodeDblClick(i) ==
  /\ Idle
  /\ IF mode = "select"
     THEN /\ openEditNodeModal(nodes[i])
          /\ lastOp' = Op("openEditNodeModal", nodes[i].id, None, i)
          /\ UNCHANGED <<nodes, coordinates>>
     ELSE /\ applyLoadToNode(nodes[i].id)
          /\ lastOp' = Op("applyLoad", nodes[i].id, None, 0)
          /\ UNCHANGED dialogVars
  /\ UNCHANGED <<members, selectionVars, analysisResults, uiVars>>
  /\ UNCHANGED <<viewVars, serverVars>>

\* d3 drag 'start' on the i-th drawn node (bound in select mode only)
DragStart(i) ==
  /\ Idle
  /\ mode = "select"
  /\ selectedNode' = Some(Ref(nodes[i]))
  /\ selectedMember' = None
  /\ dragging' = Some(nodes[i].id)
  /\ lastOp' = Op("select", None, None, 0)
  /\ UNCHANGED <<nodes, members, firstNodeForMember, analysisResults, mode,
                 loadSettings, errorModal, dialogVars>>
  /\ UNCHANGED <<viewVars, serverVars>>

\* d3 drag 'drag': the pointer is at p
DragMove(p) ==
  /\ dragging # None
  /\ updateNodePosition(dragging[1], p[1], p[2])
  /\ lastOp' = Op("updateNodePosition", None, None, 0)
  /\ UNCHANGED <<selectionVars, analysisResults, uiVars, dialogVars>>
  /\ UNCHANGED <<viewVars, serverVars>>

\* the pointer is released
DragEnd ==
  /\ dragging # None
  /\ dragging' = None
  /\ lastOp' = Op("dragEnd", None, None, 0)
  /\ UNCHANGED <<nodes, members, selectionVars, analysisResults, mode,
                 loadSettings, errorModal, dialogVars>>
  /\ UNCHANGED <<viewVars, serverVars>>

\* ------------------------------------------------- Coordinate-Input dialog
\* the Add Node by Coordinates button
OpenAddNodeModal ==
  /\ Idle
  /\ openAddNodeModal
  /\ lastOp' = Op("openAddNodeModal", None, None, 0)
  /\ UNCHANGED <<nodes, members, selectionVars, analysisResults, uiVars,
                 coordinates>>
  /\ UNCHANGED <<viewVars, serverVars>>

\* typing v into the X field
FormSetX(v) ==
  /\ coordinateModalOpen
  /\ coordinates' = [coordinates EXCEPT !.x = v]
  /\ lastOp' = Op("formEdit", None, None, 0)
  /\ UNCHANGED <<nodes, members, selectionVars, analysisResults, uiVars,
                 coordinateModalOpen, coordinateModalData>>
  /\ UNCHANGED <<viewVars, serverVars>>

\* typing v into the Y field
FormSetY(v) ==
  /\ coordinateModalOpen
  /\ coordinates' = [coordinates EXCEPT !.y = v]
  /\ lastOp' = Op("formEdit", None, None, 0)
  /\ UNCHANGED <<nodes, members, selectionVars, analysisResults, uiVars,
                 coordinateModalOpen, coordinateModalData>>
  /\ UNCHANGED <<viewVars, serverVars>>

\* the Confirm button: handleSubmit
FormSubmit ==
  /\ coordinateModalOpen
  /\ handleCoordinateModalSubmit(coordinates.x, Neg(coordinates.y))
  /\ lastOp' = Op("formSubmit", coordinateModalData.nodeId, None, 0)
  /\ UNCHANGED <<selectionVars, analysisResults, uiVars, coordinateModalData,
                 coordinates>>
  /\ UNCHANGED <<viewVars, serverVars>>

\* the Cancel button: onClose
FormCancel ==
  /\ coordinateModalOpen
  /\ coordinateModalOpen' = FALSE
  /\ lastOp' = Op("formCancel", None, None, 0)
  /\ UNCHANGED <<nodes, members, selectionVars, analysisResults, uiVars,
                 coordinateModalData, coordinates>>
  /\ UNCHANGED <<viewVars, serverVars>>

\* ---------------------------------------------------------- specifications
\* the node list may grow while it is shorter than max
Room(max) == Len(nodes) < max

\* Structure editing: every gesture that changes nodes, members, the
\* selection or the pending add-member node.
EditModes == {"select", "addNode", "addMember", "delete"}

Next ==
  \/ \E m \in EditModes : SetMode(m)
  \/ ClearAll
  \/ \E p \in Points : Room(MaxNodes) /\ SvgClick(p)
  \/ \E i \in DOMAIN nodes : NodeClick(i)
  \/ \E j \in DOMAIN members : MemberClick(j)
  \/ \E i \in DOMAIN nodes : DragStart(i)
  \/ \E p \in Points : DragMove(p)
  \/ DragEnd

Spec == Init /\ [][Next]_vars

\* Adding and moving without deleting.
MoveModes == {"select", "addNode", "addMember"}

NextMove ==
  \/ \E m \in MoveModes : SetMode(m)
  \/ \E p \in Points : Room(MaxNodes) /\ SvgClick(p)
  \/ \E i \in DOMAIN nodes : NodeClick(i)
  \/ \E j \in DOMAIN members : MemberClick(j)
  \/ \E i \in DOMAIN nodes : DragStart(i)
  \/ \E p \in Points : DragMove(p)
  \/ DragEnd

SpecMove == Init /\ [][NextMove]_vars

\* Building and deleting only, on a larger node list.
BuildModes == {"addNode", "addMember", "delete"}

NextBuild ==
  \/ \E m \in BuildModes : SetMode(m)
  \/ ClearAll
  \/ \E p \in Points : Room(MaxBuildNodes) /\ SvgClick(p)
  \/ \E i \in DOMAIN nodes : NodeClick(i)
  \/ \E j \in DOMAIN members : MemberClick(j)

SpecBuild == Init /\ [][NextBuild]_vars

\* Supports, loads and the analysis trigger.
CalcModes ==
  {"addNode", "addMember", "hingedSupport", "rollerSupport", "applyLoad"}

NextCalc ==
  \/ \E m \in CalcModes : SetMode(m)
  \/ \E p \in {<<0, 0>>} : Room(MaxCalcNodes) /\ SvgClick(p)
  \/ \E i \in DOMAIN nodes : NodeClick(i)
  \/ Calculate
  \/ CloseError

SpecCalc == Init /\ [][NextCalc]_vars

\* The analysis trigger on a structure that is also taken apart.
FaultModes == {"addNode", "addMember", "delete", "hingedSupport", "applyLoad"}

NextFault ==
  \/ \E m \in FaultModes : SetMode(m)
  \/ \E p \in {<<0, 0>>} : Room(MaxCalcNodes) /\ SvgClick(p)
  \/ \E i \in DOMAIN nodes : NodeClick(i)
  \/ Calculate
  \/ CloseError

SpecFault == Init /\ [][NextFault]_vars

\* Nodes, members and supports on a larger node list.
\* mutant: the panel has a button for the fixed support as well
SupportModes_WithFixed ==
  {"addNode", "addMember", "hingedSupport", "rollerSupport", "fixedSupport"}

SupportModes == {"addNode", "addMember", "hingedSupport", "rollerSupport"}

NextSupport ==
  \/ \E m \in SupportModes : SetMode(m)
  \/ \E p \in {<<0, 0>>} : Room(MaxBuildNodes) /\ SvgClick(p)
  \/ \E i \in DOMAIN nodes : NodeClick(i)

SpecSupport == Init /\ [][NextSupport]_vars

\* Loads and the load settings, on a node list that is also taken apart.
LoadModes == {"addNode", "delete", "hingedSupport", "applyLoad"}

NextLoad ==
  \/ \E m \in LoadModes : SetMode(m)
  \/ \E p \in Points : Room(MaxNodes) /\ SvgClick(p)
  \/ \E i \in DOMAIN nodes : NodeClick(i)
  \/ \E i \in DOMAIN nodes : NodeContextMenu(i)
  \/ \E text \in MagnitudeTexts : SetMagnitude(text)
  \/ \E text \in AngleTexts : SetAngle(text)

SpecLoad == Init /\ [][NextLoad]_vars

\* Everything Clear All resets: structure, selection, pending node, results.
ClearModes == {"select", "addNode", "addMember", "hingedSupport", "applyLoad"}

NextClear ==
  \/ \E m \in ClearModes : SetMode(m)
  \/ ClearAll
  \/ \E p \in {<<0, 0>>} : Room(MaxCalcNodes) /\ SvgClick(p)
  \/ \E i \in DOMAIN nodes : NodeClick(i)
  \/ \E j \in DOMAIN members : MemberClick(j)
  \/ \E text \in AngleTexts : SetAngle(text)
  \/ Calculate
  \/ CloseError

SpecClear == Init /\ [][NextClear]_vars

\* The engine on built structures: every list of 2 .. MaxEngineNodes nodes at
\* the engine points, the first one at (0, 0), unsupported, hinged or roller, unloaded or with the
\* initial load (10 kN at 270 degrees), joined by any of the possible
\* members, as left behind by add-node, add-member, support and load
\* gestures.
RECURSIVE pairsUpTo(_)
pairsUpTo(j) ==
  IF j < 2 THEN <<>>
  ELSE pairsUpTo(j - 1) \o [i \in 1 .. (j - 1) |-> <<i, j>>]

builtNodes(n, pos, sup, ld) ==
  [i \in 1 .. n |->
     [id |-> nodeId(i), x |-> pos[i][1], y |-> pos[i][2],
      support |-> sup[i], load |-> ld[i]]]

builtMembers(ns, joined) ==
  LET chosen == SelectSeq(pairsUpTo(Len(ns)), LAMBDA pr : pr \in joined)
  IN [k \in 1 .. Len(chosen) |->
        [id |-> memberId(k), node1 |-> Snapshot(ns[chosen[k][1]]),
         node2 |-> Snapshot(ns[chosen[k][2]])]]

InitEngine ==
  /\ \E n \in 2 .. MaxEngineNodes :
       \E pos \in [1 .. n -> EnginePoints],
          sup \in [1 .. n -> {"null", "hinged", "roller"}],
          ld \in [1 .. n -> {None, Some([x |-> 0, y |-> 10])}],
          joined \in SUBSET {pr \in (1 .. n) \X (1 .. n) : pr[1] < pr[2]} :
         /\ pos[1] = <<0, 0>>
         /\ nodes = builtNodes(n, pos, sup, ld)
         /\ members = builtMembers(builtNodes(n, pos, sup, ld), joined)
  /\ mode = "select"
  /\ selectedNode = None
  /\ selectedMember = None
  /\ firstNodeForMember = None
  /\ analysisResults = None
  /\ loadSettings = [magnitude |-> 10, angle |-> 270]
  /\ errorModal = [isOpen |-> FALSE, message |-> ""]
  /\ coordinateModalOpen = FALSE
  /\ coordinateModalData =
       [isEditing |-> FALSE, nodeId |-> None,
        initialValues |-> [x |-> Rat(0, 1), y |-> Rat(0, 1)]]
  /\ coordinates = [x |-> Rat(0, 1), y |-> Rat(0, 1)]
  /\ dragging = None
  /\ InitView
  /\ InitServer
  /\ lastOp = Op("init", None, None, 0)

NextEngine ==
  \/ Calculate
  \/ CloseError

SpecEngine == InitEngine /\ [][NextEngine]_vars

\* Calculate on structures of up to MaxDenseNodes nodes entered at one point
\* by coordinates, joined by the first pairs in the order of pairsUpTo, with
\* any support at the first node and a load or none at the last.
MaxDenseNodes == 5

InitDense ==
  /\ \E n \in 2 .. MaxDenseNodes :
       \E sup1 \in {"null", "hinged", "roller"},
          ldn \in {None, Some([x |-> 0, y |-> 10])},
          count \in 0 .. Len(pairsUpTo(n)) :
         LET ns == builtNodes(n, [i \in 1 .. n |-> <<0, 0>>],
                              [i \in 1 .. n |-> IF i = 1 THEN sup1 ELSE "null"],
                              [i \in 1 .. n |-> IF i = n THEN ldn ELSE None])
         IN /\ nodes = ns
            /\ members =
                 builtMembers(ns, {pairsUpTo(n)[k] : k \in 1 .. count})
  /\ mode = "select"
  /\ selectedNode = None
  /\ selectedMember = None
  /\ firstNodeForMember = None
  /\ analysisResults = None
  /\ loadSettings = [magnitude |-> 10, angle |-> 270]
  /\ errorModal = [isOpen |-> FALSE, message |-> ""]
  /\ coordinateModalOpen = FALSE
  /\ coordinateModalData =
       [isEditing |-> FALSE, nodeId |-> None,
        initialValues |-> [x |-> Rat(0, 1), y |-> Rat(0, 1)]]
  /\ coordinates = [x |-> Rat(0, 1), y |-> Rat(0, 1)]
  /\ dragging = None
  /\ InitView
  /\ InitServer
  /\ lastOp = Op("init", None, None, 0)

SpecDense == InitDense /\ [][NextEngine]_vars

\* The pan/zoom transform of the Canvas. The attached zoom behaviour clamps
\* the scale of its own gestures to its scale extent and reports them to the
\* zoom listener; the buttons make a fresh behaviour and set the transform of
\* the element through it.
MaxZoomTerm == 1000

scaleExtent == <<Num(1, 0, 10), FromInt(5)>>

\* 2 ^ wheelDelta of the wheel and pinch gestures that are tried
WheelFactors == {Num(1, 0, 2), Num(4, 0, 5), Num(5, 0, 4), FromInt(2)}

\* the scale stays a fraction of terms up to MaxZoomTerm
SmallTerms(k) == Abs(k.a) <= MaxZoomTerm /\ k.d <= MaxZoomTerm

\* Math.max(scaleExtent[0], Math.min(scaleExtent[1], k))
clampScale(k) ==
  IF NLess(k, scaleExtent[1]) THEN scaleExtent[1]
  ELSE IF NLess(scaleExtent[2], k) THEN scaleExtent[2] ELSE k

\* transform.scale(k): the scale of the transform times k
scale(t, k) == NMul(t, k)

\* currentTransform.scale(currentTransform.k * factor)
buttonTarget(t, factor) == scale(t, NMul(t, factor))

\* wheel or pinch on the canvas: the new scale is clamped, and a gesture that
\* does not change the scale is dropped
Wheel(factor) ==
  LET k == clampScale(NMul(zoomTransform, factor))
  IN /\ Idle
     /\ k # zoomTransform
     /\ SmallTerms(k)
     /\ zoomTransform' = k
     /\ transform' = k
     /\ lastOp' = Op("wheel", None, None, 0)
     /\ UNCHANGED <<nodes, members, selectionVars, analysisResults, uiVars,
                    dialogVars, serverVars>>

\* dragging the background pans: the listener receives the transform of the
\* element with a new translation
Pan ==
  /\ Idle
  /\ transform' = zoomTransform
  /\ lastOp' = Op("pan", None, None, 0)
  /\ UNCHANGED <<nodes, members, selectionVars, analysisResults, uiVars,
                 dialogVars, zoomTransform, serverVars>>

\* the zoom-in and zoom-out buttons of the Canvas
ZoomButton(factor) ==
  /\ Idle
  /\ SmallTerms(buttonTarget(zoomTransform, factor))
  /\ zoomTransform' = buttonTarget(zoomTransform, factor)
  /\ lastOp' = Op("zoomButton", None, None, 0)
  /\ UNCHANGED <<nodes, members, selectionVars, analysisResults, uiVars,
                 dialogVars, transform, serverVars>>

ZoomIn == ZoomButton(Num(6, 0, 5))

ZoomOut == ZoomButton(Num(4, 0, 5))

\* the reset-view button of the Canvas and of the Control Panel
resetViewToCenter ==
  /\ Idle
  /\ zoomTransform' = scale(FromInt(1), FromInt(1))
  /\ lastOp' = Op("resetView", None, None, 0)
  /\ UNCHANGED <<nodes, members, selectionVars, analysisResults, uiVars,
                 dialogVars, transform, serverVars>>

NextZoom ==
  \/ \E factor \in WheelFactors : Wheel(factor)
  \/ Pan
  \/ ZoomIn
  \/ ZoomOut
  \/ resetViewToCenter

SpecZoom == Init /\ [][NextZoom]_vars

\* The server: the route registered for every GET request.
\* NODE_ENV is unset or holds a name
NodeEnvs == {<<>>, <<"production">>, <<"development">>, <<"test">>}

\* req.path of the requests that are tried
Paths ==
  {head \o tail :
     head \in {"/", "/api", "/ap", "/apis", "/API", "/app", "/index.html",
               "/truss/api"},
     tail \in {"", "/", "/designs", "/api", "x"}}

\* String.prototype.startsWith
startsWith(text, prefix) ==
  Len(text) >= Len(prefix) /\ SubSeq(text, 1, Len(prefix)) = prefix

\* mutant: the API test is skipped
indexRoute_NoApiTest(path, env) ==
  IF env = <<"production">>
  THEN [sendFile |-> <<"public/index.html">>, next |-> FALSE]
  ELSE [sendFile |-> <<>>, next |-> TRUE]

\* the handler of app.get('*'): what it sends and whether it calls next
indexRoute(path, env) ==
  IF startsWith(path, "/api")
  THEN [sendFile |-> <<>>, next |-> TRUE]
  ELSE IF env = <<"production">>
  THEN [sendFile |-> <<"public/index.html">>, next |-> FALSE]
  ELSE [sendFile |-> <<>>, next |-> TRUE]

\* a GET request for path arrives
Get(path) ==
  /\ response' = indexRoute(path, nodeEnv)
  /\ lastOp' = Op("get", path, None, 0)
  /\ UNCHANGED <<nodes, members, selectionVars, analysisResults, uiVars,
                 dialogVars, viewVars, nodeEnv>>

\* the process starts in any environment
InitProcess ==
  /\ nodeEnv \in NodeEnvs
  /\ response = <<>>
  /\ nodes = <<>>
  /\ members = <<>>
  /\ mode = "select"
  /\ selectedNode = None
  /\ selectedMember = None
  /\ firstNodeForMember = None
  /\ analysisResults = None
  /\ loadSettings = [magnitude |-> 10, angle |-> 270]
  /\ errorModal = [isOpen |-> FALSE, message |-> ""]
  /\ coordinateModalOpen = FALSE
  /\ coordinateModalData =
       [isEditing |-> FALSE, nodeId |-> None,
        initialValues |-> [x |-> Rat(0, 1), y |-> Rat(0, 1)]]
  /\ coordinates = [x |-> Rat(0, 1), y |-> Rat(0, 1)]
  /\ dragging = None
  /\ InitView
  /\ lastOp = Op("init", None, None, 0)

NextServer == \E path \in Paths : Get(path)

SpecServer == InitProcess /\ [][NextServer]_vars

\* The coordinate dialog: add by coordinates and edit by double click.
DialogModes == {"select", "addNode"}

NextDialog ==
  \/ \E m \in DialogModes : SetMode(m)
  \/ \E p \in Points : Room(MaxNodes) /\ SvgClick(p)
  \/ \E i \in DOMAIN nodes : NodeDblClick(i)
  \/ OpenAddNodeModal
  \/ \E v \in FormNumbers : FormSetX(v)
  \/ \E v \in FormNumbers : FormSetY(v)
  \/ (coordinateModalData.isEditing \/ Room(MaxNodes)) /\ FormSubmit
  \/ FormCancel

SpecDialog == Init /\ [][NextDialog]_vars

\* The Controller operations called directly, with any nodes of the list as
\* arguments (the operations as the Canvas receives them as callbacks).
\* lastOp.a keeps the id of the last-created node when the operation before
\* deleted it
CtlAddNode(p) ==
  /\ addNode(p[1], p[2])
  /\ lastOp' = Op("addNode",
                  IF lastOp.op = "deleteNode" /\ lastOp.a = lastOp.b
                  THEN lastOp.a ELSE None,
                  None, 0)
  /\ UNCHANGED <<members, selectionVars, analysisResults, uiVars, dialogVars>>
  /\ UNCHANGED <<viewVars, serverVars>>

CtlAddMember(i, j) ==
  /\ addMember(nodes[i], nodes[j])
  /\ lastOp' = Op("addMember", nodes[i].id, nodes[j].id, 0)
  /\ UNCHANGED <<nodes, selectionVars, analysisResults, uiVars, dialogVars>>
  /\ UNCHANGED <<viewVars, serverVars>>

CtlDeleteNode(i) ==
  /\ deleteNode(nodes[i].id)
  /\ lastOp' = Op("deleteNode", nodes[i].id, nodes[Len(nodes)].id, 0)
  /\ UNCHANGED <<selectedMember, firstNodeForMember, analysisResults, uiVars,
                 dialogVars>>
  /\ UNCHANGED <<viewVars, serverVars>>

CtlDeleteMember(j) ==
  /\ deleteMember(members[j].id)
  /\ lastOp' = Op("deleteMember", members[j].id, None, 0)
  /\ UNCHANGED <<nodes, selectedNode, firstNodeForMember, analysisResults,
                 uiVars, dialogVars>>
  /\ UNCHANGED <<viewVars, serverVars>>

CtlUpdateNodePosition(i, p) ==
  /\ updateNodePosition(nodes[i].id, p[1], p[2])
  /\ lastOp' = Op("updateNodePosition", None, None, 0)
  /\ UNCHANGED <<selectionVars, analysisResults, uiVars, dialogVars>>
  /\ UNCHANGED <<viewVars, serverVars>>

NextCtl ==
  \/ \E p \in Points : Room(MaxBuildNodes) /\ CtlAddNode(p)
  \/ \E i, j \in DOMAIN nodes : CtlAddMember(i, j)
  \/ \E i \in DOMAIN nodes : CtlDeleteNode(i)
  \/ \E j \in DOMAIN members : CtlDeleteMember(j)
  \/ \E i \in DOMAIN nodes, p \in Points : CtlUpdateNodePosition(i, p)

SpecCtl == Init /\ [][NextCtl]_vars

\* ------------------------------------------------------------------ claims
\* value equality of two rationals
RatEq(p, q) == p.n * q.d = q.n * p.d

\* the member list holds a member between the ids a and b, in either order
Connects(ms, a, b) ==
  \E i \in DOMAIN ms :
     \/ ms[i].node1.id = a /\ ms[i].node2.id = b
     \/ ms[i].node1.id = b /\ ms[i].node2.id = a

\* C1: both endpoints of every member have the id of a node of the node list.
C1_MemberEndpointsExist ==
  \A i \in DOMAIN members :
     /\ members[i].node1.id \in NodeIds(nodes)
     /\ members[i].node2.id \in NodeIds(nodes)

\* C2: the endpoint copies of every member carry the x and y of the node of
\* the node list that has the same id.
C2_MembersReflectNodePositions ==
  \A i \in DOMAIN members : \A k \in DOMAIN nodes :
     /\ members[i].node1.id = nodes[k].id
          => members[i].node1.x = nodes[k].x /\ members[i].node1.y = nodes[k].y
     /\ members[i].node2.id = nodes[k].id
          => members[i].node2.x = nodes[k].x /\ members[i].node2.y = nodes[k].y

\* C3: no two nodes of the node list have the same id.
C3_NodeIdsUnique ==
  \A i, j \in DOMAIN nodes : i # j => nodes[i].id # nodes[j].id

\* C4: no two members connect the same unordered pair of node ids, and an
\* add-member for a pair that is already connected, in either order, leaves
\* the member list unchanged.
C4_MemberPairsUnique ==
  /\ [](\A i, j \in DOMAIN members :
          i # j => {members[i].node1.id, members[i].node2.id}
                     # {members[j].node1.id, members[j].node2.id})
  /\ [][(lastOp'.op = "addMember" /\ Connects(members, lastOp'.a, lastOp'.b))
          => members' = members]_vars

\* C4 witness: add-member(B, A) was requested while the member A-B existed.
C4_ReverseAddAttempted ==
  /\ lastOp.op = "addMember"
  /\ \E i \in DOMAIN members :
        members[i].node1.id = lastOp.b /\ members[i].node2.id = lastOp.a
  /\ Len(members) = 1

\* C5: add-member(n, n) changes neither the member list nor the error modal,
\* and no member ever has two endpoints with the same id.
C5_SelfLoopRejected ==
  /\ [](\A i \in DOMAIN members : members[i].node1.id # members[i].node2.id)
  /\ [][(lastOp'.op = "addMember" /\ lastOp'.a = lastOp'.b)
          => members' = members /\ errorModal' = errorModal]_vars

\* C5 witness: add-member(n, n) was called on a list that holds a member.
C5_SelfAddAttempted ==
  /\ lastOp.op = "addMember"
  /\ lastOp.a = lastOp.b
  /\ members # <<>>

\* C6: delete-node(id) removes every member with an endpoint of that id and
\* no other member; the members that stay keep id, endpoints and order.
C6_CascadingDelete ==
  [][lastOp'.op = "deleteNode" =>
       LET a == lastOp'.a
           related(m) == m.node1.id = a \/ m.node2.id = a
           kept == {i \in DOMAIN members : ~related(members[i])}
       IN /\ \A j \in DOMAIN members' : ~related(members'[j])
          /\ Len(members') = Cardinality(kept)
          /\ \A i \in kept :
                members'[Cardinality({k \in kept : k <= i})] = members[i]]_vars

\* C6 witness: a delete-node removed a member and another member stayed.
C6_CascadeWithSurvivor ==
  /\ lastOp.op = "deleteNode"
  /\ lastOp.k >= 1
  /\ members # <<>>

\* C7: opening the edit dialog for a node at (x, y) shows (x/100, -y/100) in
\* the two fields, and confirming right away leaves the node list unchanged.
C7_EditDialogRoundTrip ==
  [][/\ lastOp'.op = "openEditNodeModal" =>
          /\ RatEq(coordinates'.x, Div100(nodes[lastOp'.k].x))
          /\ RatEq(coordinates'.y, Div100(0 - nodes[lastOp'.k].y))
     /\ (lastOp.op = "openEditNodeModal" /\ lastOp'.op = "formSubmit") =>
          nodes' = nodes]_vars

\* the message of the first pre-check of calculateForces that fails
ExpectedMessage ==
  IF Len(nodes) < 2 \/ Len(members) < 1 THEN MsgNotEnough
  ELSE IF \A i \in DOMAIN nodes : nodes[i].load = None THEN MsgNoLoads
  ELSE MsgUnstable

\* M + R < 2J, with R = 2 per hinged node + 1 per roller node
MRBelow2J ==
  Len(members)
    + 2 * Cardinality({i \in DOMAIN nodes : nodes[i].support = "hinged"})
    + Cardinality({i \in DOMAIN nodes : nodes[i].support = "roller"})
    < 2 * Len(nodes)

\* C8 as stated: with M + R < 2J calculateForces does not call the engine and
\* opens the error modal with the unstable message, loaded or not.
C8_UnstableMessageAlways ==
  [][(lastOp'.op = "calculateForces" /\ MRBelow2J)
       => /\ lastOp'.k = 0
          /\ errorModal' = [isOpen |-> TRUE, message |-> MsgUnstable]]_vars

\* C8 amended: with M + R < 2J calculateForces does not call the engine and
\* opens the error modal; the message is the unstable one when there are at
\* least 2 nodes, 1 member and a loaded node, and the message of the earlier
\* pre-check that fails otherwise.
C8_UnstableGuard ==
  [][(lastOp'.op = "calculateForces" /\ MRBelow2J)
       => /\ lastOp'.k = 0
          /\ analysisResults' = analysisResults
          /\ errorModal' = [isOpen |-> TRUE, message |-> ExpectedMessage]]_vars

\* C8 witness: a loaded structure was rejected as unstable.
C8_RejectedAsUnstable ==
  /\ lastOp.op = "calculateForces"
  /\ lastOp.k = 0
  /\ errorModal = [isOpen |-> TRUE, message |-> MsgUnstable]
  /\ \E i \in DOMAIN nodes : nodes[i].load # None
  /\ MRBelow2J

\* C9: with fewer than 2 nodes or no member calculateForces does not call the
\* engine and opens the error modal with the not-enough-elements message.
C9_InsufficientGuard ==
  [][(lastOp'.op = "calculateForces" /\ (Len(nodes) < 2 \/ Len(members) < 1))
       => /\ lastOp'.k = 0
          /\ analysisResults' = analysisResults
          /\ errorModal' = [isOpen |-> TRUE, message |-> MsgNotEnough]]_vars

\* C9 witness: one loaded, supported node and no member was rejected.
C9_RejectedAsInsufficient ==
  /\ lastOp.op = "calculateForces"
  /\ errorModal = [isOpen |-> TRUE, message |-> MsgNotEnough]
  /\ Len(nodes) = 1 /\ members = <<>>
  /\ nodes[1].load # None /\ nodes[1].support # "null"

\* C10: calculateForces calls the engine exactly when there are at least 2
\* nodes and 1 member, some node is loaded and M + R >= 2J; otherwise it opens
\* the error modal with the message of the first pre-check that fails.
C10_EngineCalledIffPreChecksPass ==
  [][lastOp'.op = "calculateForces" =>
       LET pass == /\ Len(nodes) >= 2 /\ Len(members) >= 1
                   /\ \E i \in DOMAIN nodes : nodes[i].load # None
                   /\ ~MRBelow2J
       IN /\ lastOp'.k = (IF pass THEN 1 ELSE 0)
          /\ ~pass => /\ errorModal' = [isOpen |-> TRUE,
                                        message |-> ExpectedMessage]
                      /\ analysisResults' = analysisResults]_vars

\* C10 witness: the engine was called and its results were stored.
C10_EngineCalled ==
  /\ lastOp.op = "calculateForces"
  /\ lastOp.k = 1
  /\ analysisResults # None
  /\ ~errorModal.isOpen

\* text starts with prefix
StartsWith(text, prefix) ==
  Len(text) >= Len(prefix) /\ SubSeq(text, 1, Len(prefix)) = prefix

\* C11: when the engine call of calculateForces throws (a member endpoint is
\* the id of no node), the error modal opens with a message that starts with
\* "Calculation error: " and the stored analysis results stay as they were.
C11_EngineFaultCaught ==
  [][(lastOp'.op = "calculateForces" /\ lastOp'.k = 1
        /\ ~C1_MemberEndpointsExist)
       => /\ errorModal'.isOpen
          /\ StartsWith(errorModal'.message, "Calculation error: ")
          /\ analysisResults' = analysisResults]_vars

\* C11 witness: the engine was called on a member whose endpoint is gone and
\* the calculation error is on display.
C11_FaultOnDisplay ==
  /\ lastOp.op = "calculateForces"
  /\ lastOp.k = 1
  /\ ~C1_MemberEndpointsExist
  /\ errorModal = [isOpen |-> TRUE, message |-> MsgCalcError]

\* J, M and R counted from the lists
CountJ == Len(nodes)

CountM == Len(members)

CountR ==
  2 * Cardinality({i \in DOMAIN nodes : nodes[i].support = "hinged"})
    + Cardinality({i \in DOMAIN nodes : nodes[i].support = "roller"})

\* C12: the determinacy shown for the current lists is "Not Calculated" when
\* J, M or R is zero, and otherwise "Determinate", "Indeterminate" or
\* "Unstable" as M + R is equal to, above or below 2J.
C12_DeterminacyClassification ==
  calculateStats(nodes, members).determinacy =
    IF CountJ = 0 \/ CountM = 0 \/ CountR = 0 THEN "Not Calculated"
    ELSE IF CountM + CountR = 2 * CountJ THEN "Determinate"
    ELSE IF CountM + CountR > 2 * CountJ THEN "Indeterminate"
    ELSE "Unstable"

\* C12 witness: a triangle with one hinged and one roller support is
\* classified as determinate.
C12_TriangleDeterminate ==
  /\ CountJ = 3 /\ CountM = 3 /\ CountR = 3
  /\ calculateStats(nodes, members).determinacy = "Determinate"

\* the load vector derived from the load settings
SettingsVector ==
  [x |-> loadSettings.magnitude * Cos(loadSettings.angle),
   y |-> 0 - loadSettings.magnitude * Sin(loadSettings.angle)]

\* C13: apply-load on a node changes the load of that one node, from absent
\* to the vector derived from the load settings and from present to absent
\* whatever the settings are, and leaves every other node as it was.
C13_LoadToggle ==
  [][lastOp'.op = "applyLoad" =>
       \E i \in DOMAIN nodes :
          /\ nodes[i].id = lastOp'.a
          /\ nodes' = [nodes EXCEPT ![i].load =
                         IF nodes[i].load = None THEN Some(SettingsVector)
                         ELSE None]]_vars

\* C19: the magnitude of the load settings is never negative.
C19_MagnitudeNonNegative == loadSettings.magnitude >= 0

\* C14: Clear All empties the node list and the member list, clears both
\* selections, the pending add-member node and the analysis results, and
\* leaves the mode and the load settings as they were.
C14_ClearAllResets ==
  [][lastOp'.op = "clearAll" =>
       /\ nodes' = <<>> /\ members' = <<>>
       /\ selectedNode' = None /\ selectedMember' = None
       /\ firstNodeForMember' = None
       /\ analysisResults' = None
       /\ mode' = mode /\ loadSettings' = loadSettings]_vars

\* C14 witness: Clear All was pressed while nodes, members, a selection, a
\* pending node and analysis results were all there.
C14_ClearedEverything ==
  /\ lastOp.op = "clearAll"
  /\ lastOp.k = 5
  /\ mode # "select"
  /\ loadSettings.angle # 270

\* C15: in add-member mode a node click with no pending node makes the
\* clicked node the pending node and changes no member; a click on a node
\* with another id while a node is pending requests add-member(pending,
\* clicked) and clears the pending node, also when the pair is connected
\* already; a click on the pending node changes neither the pending node nor
\* the members.
C15_AddMemberStateMachine ==
  [][(mode = "addMember"
        /\ lastOp'.op \in {"firstNode", "addMember", "pendingClick"})
       => LET clicked == IF lastOp'.op = "addMember" THEN lastOp'.b
                         ELSE lastOp'.a
          IN IF firstNodeForMember = None
             THEN /\ lastOp'.op = "firstNode"
                  /\ firstNodeForMember' # None
                  /\ firstNodeForMember'[1].id = clicked
                  /\ members' = members
             ELSE IF clicked # firstNodeForMember[1].id
             THEN /\ lastOp'.op = "addMember"
                  /\ lastOp'.a = firstNodeForMember[1].id
                  /\ firstNodeForMember' = None
                  /\ IF Connects(members, lastOp'.a, clicked)
                     THEN members' = members
                     ELSE /\ Len(members') = Len(members) + 1
                          /\ SubSeq(members', 1, Len(members)) = members
                          /\ members'[Len(members')].node1.id = lastOp'.a
                          /\ members'[Len(members')].node2.id = clicked
             ELSE /\ lastOp'.op = "pendingClick"
                  /\ firstNodeForMember' = firstNodeForMember
                  /\ members' = members]_vars

\* C15 witness: the pending node was clicked again while a member existed.
C15_PendingClickedAgain ==
  /\ lastOp.op = "pendingClick"
  /\ firstNodeForMember # None
  /\ firstNodeForMember[1].id = lastOp.a
  /\ members # <<>>

\* the elements of a sequence
Range(seq) == {seq[i] : i \in DOMAIN seq}

\* C16: the free and the fixed DOF lists of the engine have no index in
\* common and hold every index of 0 .. 2J-1 once; node i gives 2i and 2i+1 to
\* fixed when hinged, 2i+1 to fixed and 2i to free when a roller, and both to
\* free otherwise; the fixed list is as long as the reaction count R of the
\* statistics and the free list has 2J - R entries.
C16_DofPartition ==
  LET free == freeDOF(nodes)
      fixed == fixedDOF(nodes)
      J == Len(nodes)
      R == calculateStats(nodes, members).reactionCount
  IN /\ Range(free) \cap Range(fixed) = {}
     /\ Range(free) \cup Range(fixed) = 0 .. (2 * J - 1)
     /\ Len(free) = Cardinality(Range(free))
     /\ Len(fixed) = Cardinality(Range(fixed))
     /\ \A n \in DOMAIN nodes :
           LET i == n - 1
           IN IF nodes[n].support = "hinged"
              THEN {2 * i, 2 * i + 1} \subseteq Range(fixed)
              ELSE IF nodes[n].support = "roller"
              THEN 2 * i + 1 \in Range(fixed) /\ 2 * i \in Range(free)
              ELSE {2 * i, 2 * i + 1} \subseteq Range(free)
     /\ Len(fixed) = R
     /\ Len(free) = 2 * J - R

\* C16 witness: a hinged, a roller and an unsupported node in one list.
C16_AllSupportKinds ==
  /\ Len(nodes) = 3
  /\ {nodes[i].support : i \in DOMAIN nodes} = {"hinged", "roller", "null"}
  /\ Len(fixedDOF(nodes)) = 3

StiffnessSymmetric ==
  LET K == globalStiffness(nodes, members)
      dofs == 0 .. (2 * Len(nodes) - 1)
  IN \A i, j \in dofs : NEq(K[<<i, j>>], K[<<j, i>>])

\* C17 as stated: whenever the endpoints of all members are in the node
\* list, the assembled K has K[i][j] = K[j][i] for all i, j in 0 .. 2J-1.
C17_StiffnessSymmetry == C1_MemberEndpointsExist => StiffnessSymmetric

\* no member joins two endpoint copies at the same position
NoZeroLengthMember ==
  \A m \in DOMAIN members :
     members[m].node1.x # members[m].node2.x
       \/ members[m].node1.y # members[m].node2.y

\* C17 amended: whenever the endpoints of all members are in the node list
\* and no member has length zero, the assembled K has K[i][j] = K[j][i] for
\* all i, j in 0 .. 2J-1.
C17_StiffnessSymmetryOfProperMembers ==
  (C1_MemberEndpointsExist /\ NoZeroLengthMember) => StiffnessSymmetric

\* C17 witness: three members of non-zero length, two at every node, with
\* stiffness off the diagonal.
C17_TriangleAssembled ==
  /\ Len(nodes) = 3 /\ Len(members) = 3
  /\ NoZeroLengthMember
  /\ ~IsZero(globalStiffness(nodes, members)[<<0, 5>>])
  /\ lastOp.op = "calculateForces"

\* the reduced system is non-singular: the forward elimination leaves a
\* finite pivot other than 0 in every row (reducedK is positive semidefinite)
ReducedSystemNonSingular ==
  LET sys == forwardElimination(reducedSystem(nodes, members), 1)
  IN \A i \in DOMAIN sys.F :
        IsFinite(sys.K[<<i, i>>]) /\ ~IsZero(sys.K[<<i, i>>])

RECURSIVE SumReactionY(_, _)
SumReactionY(reactions, ids) ==
  IF ids = {} THEN FromInt(0)
  ELSE LET id == CHOOSE id \in ids : TRUE
       IN NAdd(reactions[id].y, SumReactionY(reactions, ids \ {id}))

RECURSIVE SumLoadY(_)
SumLoadY(ns) ==
  IF ns = <<>> THEN 0
  ELSE (IF Head(ns).load = None THEN 0 ELSE Head(ns).load[1].y)
       + SumLoadY(Tail(ns))

\* A = (0,0) hinged, B = (400,0) roller, C = (200,-200) free with 10 kN
\* downwards, members AB, AC, BC
RightTriangle ==
  /\ Len(nodes) = 3 /\ Len(members) = 3
  /\ <<nodes[1].x, nodes[1].y>> = <<0, 0>> /\ nodes[1].support = "hinged"
  /\ <<nodes[2].x, nodes[2].y>> = <<400, 0>> /\ nodes[2].support = "roller"
  /\ <<nodes[3].x, nodes[3].y>> = <<200, -200>> /\ nodes[3].support = "null"
  /\ nodes[1].load = None /\ nodes[2].load = None
  /\ nodes[3].load = Some([x |-> 0, y |-> 10])

\* C18: on the right triangle the engine does not throw, the reduced system
\* is non-singular and the y-components of the reactions at A and B sum to
\* 10; on every structure with a non-singular reduced system the reported
\* reaction y-components sum to the sum of the load y-components.
C18_VerticalEquilibrium ==
  LET reactions == reactionForces(nodes, members)
  IN /\ RightTriangle =>
          /\ ~engineFaults(nodes, members)
          /\ ReducedSystemNonSingular
          /\ DOMAIN reactions = {nodes[1].id, nodes[2].id}
          /\ NEq(NAdd(reactions[nodes[1].id].y, reactions[nodes[2].id].y),
                 FromInt(10))
     /\ (C1_MemberEndpointsExist /\ ReducedSystemNonSingular) =>
          NEq(SumReactionY(reactions, DOMAIN reactions),
              FromInt(SumLoadY(nodes)))

\* C18 witness: the engine was called on the right triangle and its results
\* were stored.
C18_TriangleSolved ==
  /\ RightTriangle
  /\ lastOp.op = "calculateForces"
  /\ lastOp.k = 1
  /\ analysisResults # None
  /\ NEq(reactionForces(nodes, members)[nodes[1].id].y, FromInt(5))

\* C21: a member without a result is drawn gray; a member with a result is
\* drawn in the near-zero colour when |force| < 0.001, a force of 0 included,
\* in the tension colour for any other positive force and in the compression
\* colour for any other negative force.
C21_MemberColour ==
  \A m \in DOMAIN members :
     LET colour == memberColor(analysisResults, members[m])
         forces == analysisResults[1].memberForces
         force == forces[members[m].id]
     IN IF analysisResults = None \/ members[m].id \notin DOMAIN forces
        THEN colour = "#424242"
        ELSE IF NLess(NAbs(force), Num(1, 0, 1000)) THEN colour = "#44ff44"
        ELSE IF NLess(FromInt(0), force) THEN colour = "#F44336"
        ELSE IF NLess(force, FromInt(0)) THEN colour = "#2196F3"
        ELSE TRUE

\* the ids given by add-node and by an add-member that adds are derived from
\* the lengths of the lists
IdsFromLength ==
  /\ lastOp'.op = "addNode" =>
       /\ Len(nodes') = Len(nodes) + 1
       /\ SubSeq(nodes', 1, Len(nodes)) = nodes
       /\ nodes'[Len(nodes')].id = <<"node", Len(nodes) + 1>>
  /\ (lastOp'.op = "addMember" /\ members' # members) =>
       /\ Len(members') = Len(members) + 1
       /\ members'[Len(members')].id = <<"member", Len(members) + 1>>

C23_ServingShellRouting ==
  (lastOp.op = "get") =>
    IF ~StartsWith(lastOp.a, "/api") /\ nodeEnv = Some("production")
    THEN response = [sendFile |-> Some("public/index.html"), next |-> FALSE]
    ELSE response = [sendFile |-> None, next |-> TRUE]

\* C23 witness: a production server answered a client route with the entry
\* document.
C23_ClientRouteServed ==
  /\ lastOp.op = "get"
  /\ lastOp.a = "/truss/api/designs"
  /\ nodeEnv = Some("production")
  /\ response.sendFile # None

\* the scale lies in the scale extent 0.1 to 5
InExtent(k) == ~NLess(k, Num(1, 0, 10)) /\ ~NLess(FromInt(5), k)

\* C24: after any wheel and pinch zooms, presses of the zoom-in and zoom-out
\* buttons and reset-view actions, the scale of the pan/zoom transform of the
\* Canvas lies between 0.1 and 5.
C24_ScaleWithinExtent ==
  InExtent(zoomTransform) /\ InExtent(transform)

\* C25: a selected node has the id of a node of the list and a selected
\* member has the id of a member of the list, also after a delete-node that
\* removes the selected member with the node.
C25_SelectionValid ==
  /\ selectedNode # None =>
       \E i \in DOMAIN nodes : nodes[i].id = selectedNode[1].id
  /\ selectedMember # None =>
       \E j \in DOMAIN members : members[j].id = selectedMember[1].id

\* C26: at most one of selectedNode and selectedMember is set.
C26_SelectionExclusive ==
  selectedNode = None \/ selectedMember = None

\* C26 witness: a node is selected by the start of a drag while the list
\* holds a member that could have been selected before.
C26_NodeSelectedBesideMember ==
  /\ selectedNode # None
  /\ dragging # None
  /\ Len(members) >= 1

\* C27 as stated: when calculateForces calls the engine, some node is
\* supported (R > 0) and the classification of the structure is
\* "Determinate" or "Indeterminate".
C27_EngineCallSupported ==
  [][(lastOp'.op = "calculateForces" /\ lastOp'.k = 1) =>
       /\ CountR > 0
       /\ calculateStats(nodes, members).determinacy
            \in {"Determinate", "Indeterminate"}]_vars

\* C27 amended: when calculateForces calls the engine, J >= 2, M >= 1, some
\* node is loaded and M + R >= 2J; the classification is "Determinate" or
\* "Indeterminate" when a node is supported and "Not Calculated" when none
\* is, and never "Unstable".
C27_EngineCallPreChecked ==
  [][(lastOp'.op = "calculateForces" /\ lastOp'.k = 1) =>
       /\ CountJ >= 2
       /\ CountM >= 1
       /\ \E i \in DOMAIN nodes : nodes[i].load # None
       /\ CountM + CountR >= 2 * CountJ
       /\ calculateStats(nodes, members).determinacy =
            IF CountR = 0 THEN "Not Calculated"
            ELSE IF CountM + CountR = 2 * CountJ THEN "Determinate"
            ELSE "Indeterminate"]_vars

\* C27 witness: the engine was called for a structure without a support.
C27_UnsupportedAnalysed ==
  /\ lastOp.op = "calculateForces"
  /\ lastOp.k = 1
  /\ CountR = 0
  /\ analysisResults # None

\* C28: stored analysis results have the ids of the current members as the
\* keys of the member-force map and the ids of the currently supported nodes
\* as the keys of the reaction map.
C28_ResultsDescribeStructure ==
  analysisResults # None =>
    /\ DOMAIN analysisResults[1].memberForces =
         {members[j].id : j \in DOMAIN members}
    /\ DOMAIN analysisResults[1].reactionForces =
         {nodes[i].id : i \in {k \in DOMAIN nodes : nodes[k].support # "null"}}

\* C29: a calculateForces call that fails a pre-check changes the error
\* modal only: nodes, members, mode, the selections, the pending add-member
\* node, the load settings and the stored analysis results stay as they were.
C29_FailedPreCheckFrame ==
  [][(lastOp'.op = "calculateForces" /\ lastOp'.k = 0) =>
       /\ errorModal'.isOpen
       /\ UNCHANGED <<nodes, members, mode, selectedNode, selectedMember,
                      firstNodeForMember, loadSettings, analysisResults>>]_vars

\* C29 witness: a pre-check failed while results of an earlier calculation
\* were stored.
C29_FailedWithStoredResults ==
  /\ lastOp.op = "calculateForces"
  /\ lastOp.k = 0
  /\ errorModal.isOpen
  /\ analysisResults # None

\* C30: delete-node(id) for the id of a node of the list removes exactly one
\* node: the list is one shorter and every other node stays in it with its
\* id, position, support and load.
C30_DeleteNodeRemovesOne ==
  [][(lastOp'.op = "deleteNode") =>
       \E i \in DOMAIN nodes :
         /\ nodes[i].id = lastOp'.a
         /\ nodes' = SubSeq(nodes, 1, i - 1) \o SubSeq(nodes, i + 1, Len(nodes))]_vars

====
